---------------------------- MODULE Spec2Model ----------------------------
(***************************************************************************)
(* A model of lsishow.py: the LSI controller summary.                      *)
(*                                                                         *)
(* Text is modelled as a sequence of tokens.  Where the program looks      *)
(* inside a string (masking, digit runs, prefixes, substrings) the tokens  *)
(* are single characters; a literal the program only copies (a label of a  *)
(* printed line, a device name, a link speed, an ANSI escape code) is one  *)
(* token.  The token "deg" stands for the degree sign.                     *)
(***************************************************************************)
EXTENDS Integers, Sequences, FiniteSets, TLC

VARIABLES
    pc,                   \* position of the run
    serial_number,        \* argument of a direct call of mask_serial
    temp_str,             \* argument of a direct call of colorize_temp
    device_type,          \* argument of a direct call of colorize_temp
    ret,                  \* value returned by the direct call
    lspci_output,         \* captured output of `lspci -vv`
    lspci_output_simple,  \* captured output of `lspci`
    controller_name,
    bus_interface,
    hide_serials,
    drive_temps,
    drive_details_by_slot,
    storcli_output_show,  \* captured output of `storcli64 /c0 show`
    summary,              \* controller_serial, driver_version, ... total_ports
    devices,
    controller_temp,
    out                   \* the lines printed so far

vars == <<pc, serial_number, temp_str, device_type, ret, lspci_output,
          lspci_output_simple, controller_name, bus_interface, hide_serials,
          drive_temps, drive_details_by_slot, storcli_output_show, summary,
          devices, controller_temp, out>>

(***************************************************************************)
(* Bounds of the model.                                                    *)
(***************************************************************************)
MaxSerialLen == 4
MaxTempDigits == 3
MaxBlocks == 3
MaxLines == 2

(***************************************************************************)
(* Values.                                                                 *)
(***************************************************************************)
\* Python's None, and a regular expression that did not match.
None == <<"<None>">>
NoMatch == <<"<no match>">>
\* What subprocess.check_output gives: the captured text, or the exception
\* raised (non-zero exit: CalledProcessError; the program cannot be run:
\* FileNotFoundError).
Output(text) == [called |-> TRUE, ok |-> TRUE, text |-> text]
Raised(e) == [called |-> TRUE, ok |-> FALSE, error |-> e]
\* A tool that has not been called (yet).
NotCalled == [called |-> FALSE]
Failures == {Raised("CalledProcessError"), Raised("FileNotFoundError")}
\* The string "N/A".
NA == <<"N", "/", "A">>

Colors == [RED |-> "<ESC>[91m", GREEN |-> "<ESC>[92m",
           YELLOW |-> "<ESC>[93m", RESET |-> "<ESC>[0m"]

DigitChars == <<"0", "1", "2", "3", "4", "5", "6", "7", "8", "9">>
IsDigit(c) == \E i \in 1..10 : DigitChars[i] = c
DigitVal(c) == (CHOOSE i \in 1..10 : DigitChars[i] = c) - 1

\* int(s) for a string of decimal digits.
RECURSIVE ToInt(_)
ToInt(s) ==
    IF s = <<>> THEN 0
    ELSE 10 * ToInt(SubSeq(s, 1, Len(s) - 1)) + DigitVal(s[Len(s)])

\* str(n) for n >= 0.
RECURSIVE Str(_)
Str(n) ==
    IF n < 10 THEN <<DigitChars[n + 1]>>
    ELSE Str(n \div 10) \o <<DigitChars[(n % 10) + 1]>>

\* re.search(r'(\d+)', s).group(1): the first, longest run of digits.
DigitRunAt(s, i) ==
    LET j == CHOOSE k \in i..Len(s) :
                 /\ \A m \in i..k : IsDigit(s[m])
                 /\ (k = Len(s) \/ ~IsDigit(s[k + 1]))
    IN  SubSeq(s, i, j)
FirstDigitRun(s) ==
    IF \E i \in 1..Len(s) : IsDigit(s[i])
    THEN DigitRunAt(s, CHOOSE i \in 1..Len(s) :
                           /\ IsDigit(s[i])
                           /\ \A k \in 1..(i - 1) : ~IsDigit(s[k]))
    ELSE NoMatch

\* sub in s
Contains(s, sub) ==
    \E i \in 1..(Len(s) - Len(sub) + 1) : SubSeq(s, i, i + Len(sub) - 1) = sub
\* s.startswith(p)
StartsWith(s, p) == Len(s) >= Len(p) /\ SubSeq(s, 1, Len(p)) = p

\* All strings over an alphabet, of length lo..hi.
StringsOver(alphabet, lo, hi) ==
    UNION {[1..n -> alphabet] : n \in lo..hi}

(***************************************************************************)
(* mask_serial                                                             *)
(***************************************************************************)
\* A variant that masks the larger half of an odd length.
mask_serial_ceil(serial) ==
    IF serial = NA \/ Len(serial) < 2 THEN serial
    ELSE LET half_length == (Len(serial) + 1) \div 2
             masked_part == [i \in 1..half_length |-> "*"]
             visible_part == SubSeq(serial, half_length + 1, Len(serial))
         IN  masked_part \o visible_part

mask_serial(serial) ==
    IF serial = NA \/ Len(serial) < 2 THEN serial
    ELSE LET half_length == Len(serial) \div 2
             masked_part == [i \in 1..half_length |-> "*"]
             visible_part == SubSeq(serial, half_length + 1, Len(serial))
         IN  masked_part \o visible_part

(***************************************************************************)
(* colorize_temp                                                           *)
(***************************************************************************)
thresholds == [drive |-> [red |-> 60, yellow |-> 51],
               controller |-> [red |-> 101, yellow |-> 51]]

Colored(color, s) == <<color>> \o s \o <<Colors.RESET>>

\* A variant that compares with > where the function compares with >=.
colorize_temp_strict(temp, dev) ==
    IF ~Contains(temp, <<"deg", "C">>) THEN temp
    ELSE LET m == FirstDigitRun(temp)
         IN  IF m = NoMatch THEN temp
             ELSE LET temp_val == ToInt(m)
                      red_threshold == thresholds[dev].red
                      yellow_threshold == thresholds[dev].yellow
                  IN  IF temp_val > red_threshold
                      THEN Colored(Colors.RED, temp)
                      ELSE IF temp_val > yellow_threshold
                      THEN Colored(Colors.YELLOW, temp)
                      ELSE Colored(Colors.GREEN, temp)

colorize_temp(temp, dev) ==
    IF ~Contains(temp, <<"deg", "C">>) THEN temp
    ELSE LET m == FirstDigitRun(temp)
         IN  \* no digits: AttributeError, caught, the string is returned
             IF m = NoMatch THEN temp
             ELSE LET temp_val == ToInt(m)
                      red_threshold == thresholds[dev].red
                      yellow_threshold == thresholds[dev].yellow
                  IN  IF temp_val >= red_threshold
                      THEN Colored(Colors.RED, temp)
                      ELSE IF temp_val >= yellow_threshold
                      THEN Colored(Colors.YELLOW, temp)
                      ELSE Colored(Colors.GREEN, temp)

\* f"{temp}°C" if temp != "N/A" else "N/A"
TempStr(temp) == IF temp # NA THEN temp \o <<"deg", "C">> ELSE NA


(***************************************************************************)
(* The state before any call, and the direct calls of the pure functions.  *)
(***************************************************************************)
Idle ==
    /\ ret = None
    /\ lspci_output = NotCalled
    /\ lspci_output_simple = NotCalled
    /\ controller_name = None
    /\ bus_interface = None
    /\ drive_temps = None
    /\ drive_details_by_slot = None
    /\ storcli_output_show = NotCalled
    /\ summary = None
    /\ devices = None
    /\ controller_temp = None
    /\ out = <<>>

SerialAlphabet == {"N", "/", "A", "7"}
SerialStrings == StringsOver(SerialAlphabet, 0, MaxSerialLen)

InitMask ==
    /\ pc = "mask_serial"
    /\ hide_serials = TRUE
    /\ serial_number \in SerialStrings
    /\ temp_str = None
    /\ device_type = None
    /\ Idle

CallMaskSerial ==
    /\ pc = "mask_serial"
    /\ ret' = mask_serial(serial_number)
    /\ pc' = "mask_serial_ret"
    /\ UNCHANGED <<serial_number, temp_str, device_type, lspci_output,
                   lspci_output_simple, controller_name, bus_interface,
                   hide_serials, drive_temps, drive_details_by_slot,
                   storcli_output_show, summary, devices, controller_temp,
                   out>>

NextMask == CallMaskSerial
SpecMask == InitMask /\ [][NextMask]_vars

DigitSet == {DigitChars[i] : i \in 1..10}
\* "<digits>°C" as built by get_lsi_summary, "N/A", and a "°C" with no digits.
TempStrings ==
    {d \o <<"deg", "C">> : d \in StringsOver(DigitSet, 0, MaxTempDigits)}
        \cup {NA}
DeviceTypes == {"drive", "controller"}

InitTemp ==
    /\ pc = "colorize_temp"
    /\ hide_serials = TRUE
    /\ serial_number = None
    /\ temp_str \in TempStrings
    /\ device_type \in DeviceTypes
    /\ Idle

CallColorizeTemp ==
    /\ pc = "colorize_temp"
    /\ ret' = colorize_temp(temp_str, device_type)
    /\ pc' = "colorize_temp_ret"
    /\ UNCHANGED <<serial_number, temp_str, device_type, lspci_output,
                   lspci_output_simple, controller_name, bus_interface,
                   hide_serials, drive_temps, drive_details_by_slot,
                   storcli_output_show, summary, devices, controller_temp,
                   out>>

NextTemp == CallColorizeTemp
SpecTemp == InitTemp /\ [][NextTemp]_vars

(***************************************************************************)
(* get_controller_details                                                  *)
(*                                                                         *)
(* The verbose listing is the sequence of blocks re.split gives; of a      *)
(* block the function reads its first line, whether it holds the class     *)
(* marker "Serial Attached SCSI controller", and the groups of the LnkSta  *)
(* pattern (or NoMatch).  The plain listing is its sequence of lines.      *)
(***************************************************************************)
Block(first, marker, lnk) ==
    [first_line |-> first, marker |-> marker, lnk_sta |-> lnk]
Lnk(speed, width) == [matched |-> TRUE, speed |-> speed, width |-> width]
NoLnk == [matched |-> FALSE]

HostBlock == Block("00:00.0 Host bridge: X", FALSE, NoLnk)
NicBlock == Block("03:00.0 Ethernet controller: E", FALSE,
                  Lnk(<<"5">>, "x4"))
SasBlockA == Block("01:00.0 Serial Attached SCSI controller: A", TRUE, NoLnk)
SasBlockB == Block("02:00.0 Serial Attached SCSI controller: B", TRUE,
                   Lnk(<<"8">>, "x8"))
SasBlockC == Block("04:00.0 Serial Attached SCSI controller: C", TRUE,
                   Lnk(<<"3", "2">>, "x16"))
BlockSamples == {HostBlock, NicBlock, SasBlockA, SasBlockB, SasBlockC}

Line(text, marker) == [text |-> text, marker |-> marker]
LineSamples == {Line("00:00.0 Host bridge: X", FALSE),
                Line("01:00.0 Serial Attached SCSI controller: A", TRUE),
                Line("02:00.0 Serial Attached SCSI controller: B", TRUE)}

LspciOutputs ==
    Failures \cup {Output(b) : b \in StringsOver(BlockSamples, 0, MaxBlocks)}
LspciSimpleOutputs ==
    Failures \cup {Output(l) : l \in StringsOver(LineSamples, 0, 2)}

\* Determine PCIe version from speed
PcieVersion(speed_str) ==
    IF StartsWith(speed_str, <<"1", "6">>) THEN "4.0"
    ELSE IF StartsWith(speed_str, <<"8">>) THEN "3.0"
    ELSE IF StartsWith(speed_str, <<"5">>) THEN "2.0"
    ELSE IF StartsWith(speed_str, <<"2", ".", "5">>) THEN "1.0"
    ELSE "Unknown"

BusInterface(lnk) == <<"PCI Express ", PcieVersion(lnk.speed), " ", lnk.width>>

Min(S) == CHOOSE x \in S : \A y \in S : x <= y

Return(name, bus) == [returned |-> TRUE, name |-> name, bus |-> bus]
NoReturn == [returned |-> FALSE]

\* A variant of the loop that returns at the first block with the marker,
\* with or without a LnkSta match.
ScanBlocksFirstMarker(blocks) ==
    LET hits == {i \in 1..Len(blocks) : blocks[i].marker}
    IN  IF hits = {} THEN NoReturn
        ELSE LET b == blocks[Min(hits)]
             IN  IF b.lnk_sta.matched
                 THEN Return(<<b.first_line>>, BusInterface(b.lnk_sta))
                 ELSE Return(<<b.first_line>>, None)

\* The loop over device_blocks: it returns at the first block that holds the
\* marker and a LnkSta match, and otherwise ends without a return.
ScanBlocks(blocks) ==
    LET hits == {i \in 1..Len(blocks) :
                     blocks[i].marker /\ blocks[i].lnk_sta.matched}
    IN  IF hits = {} THEN NoReturn
        ELSE LET b == blocks[Min(hits)]
             IN  Return(<<b.first_line>>, BusInterface(b.lnk_sta))

\* The loop over the lines of the plain listing, and the return after it.
ScanLines(lines) ==
    LET hits == {i \in 1..Len(lines) : lines[i].marker}
    IN  IF hits = {} THEN Return(<<"LSI controller not found.">>, None)
        ELSE Return(<<lines[Min(hits)].text>>, None)

\* except (subprocess.CalledProcessError, FileNotFoundError) as e
ErrorResult(e) ==
    Return(<<"Error retrieving controller details: ", e>>, None)

CtlUnchanged ==
    UNCHANGED <<serial_number, temp_str, device_type, ret, hide_serials,
                drive_temps, drive_details_by_slot, storcli_output_show,
                summary, devices, controller_temp, out>>

\* lspci -vv and the loop over its blocks
LspciVerbose(outputs) ==
    /\ pc = "start"
    /\ \E o \in outputs :
          /\ lspci_output' = o
          /\ LET r == IF o.ok THEN ScanBlocks(o.text) ELSE ErrorResult(o.error)
             IN  IF r.returned
                 THEN /\ controller_name' = r.name
                      /\ bus_interface' = r.bus
                      /\ pc' = "ctl_ret"
                 ELSE /\ UNCHANGED <<controller_name, bus_interface>>
                      /\ pc' = "ctl_fallback"
    /\ UNCHANGED lspci_output_simple
    /\ CtlUnchanged

\* Fallback to simple 'lspci' if the detailed parsing fails
LspciSimple(outputs) ==
    /\ pc = "ctl_fallback"
    /\ \E o \in outputs :
          /\ lspci_output_simple' = o
          /\ LET r == IF o.ok THEN ScanLines(o.text) ELSE ErrorResult(o.error)
             IN  /\ controller_name' = r.name
                 /\ bus_interface' = r.bus
    /\ pc' = "ctl_ret"
    /\ UNCHANGED lspci_output
    /\ CtlUnchanged

NoDirectCall ==
    /\ serial_number = None
    /\ temp_str = None
    /\ device_type = None

InitCtl ==
    /\ pc = "start"
    /\ hide_serials = TRUE
    /\ NoDirectCall
    /\ Idle

NextCtl == LspciVerbose(LspciOutputs) \/ LspciSimple(LspciSimpleOutputs)
SpecCtl == InitCtl /\ [][NextCtl]_vars

(***************************************************************************)
(* Python dicts, as functions.                                             *)
(***************************************************************************)
EmptyDict == <<>>
Put(d, k, v) == [x \in DOMAIN d \cup {k} |-> IF x = k THEN v ELSE d[x]]
Get(d, k, default) == IF k \in DOMAIN d THEN d[k] ELSE default

(***************************************************************************)
(* get_drive_temperatures                                                  *)
(*                                                                         *)
(* The listing is the sequence of blocks split("HDD Device") gives; of a   *)
(* block the function reads whether it holds "HDD Model ID", and the       *)
(* groups of the serial and temperature patterns (or NoMatch).             *)
(***************************************************************************)
HdSection(model_id, serial, temp) ==
    [model_id |-> model_id, serial_no |-> serial, temperature |-> temp]

SerialABC == <<"A", "B", "C", "1", "2", "3">>
SerialXY == <<"X", "Y", "9">>

HdSectionSamples ==
    {HdSection(TRUE, SerialABC, <<"4", "5">>),
     HdSection(TRUE, NA, <<"6", "1">>),
     HdSection(TRUE, SerialXY, NoMatch),
     HdSection(FALSE, NoMatch, NoMatch)}
HdsentinelOutputs ==
    Failures \cup {Output(b) : b \in StringsOver(HdSectionSamples, 0, 2)}

RECURSIVE TempsOf(_)
TempsOf(blocks) ==
    IF blocks = <<>> THEN EmptyDict
    ELSE LET temps == TempsOf(SubSeq(blocks, 1, Len(blocks) - 1))
             block == blocks[Len(blocks)]
         IN  IF ~block.model_id THEN temps
             ELSE IF block.serial_no # NoMatch /\ block.temperature # NoMatch
             THEN Put(temps, block.serial_no, block.temperature)
             ELSE temps

get_drive_temperatures(o) == IF o.ok THEN TempsOf(o.text) ELSE EmptyDict

(***************************************************************************)
(* get_drive_details                                                       *)
(*                                                                         *)
(* The listing is the sequence of sections after each "Drive /c0/s<n>      *)
(* Device attributes :" marker, each with the slot id of its marker and    *)
(* the groups of the SN and Link Speed patterns (or NoMatch).              *)
(***************************************************************************)
DriveSection(slot, sn, link) ==
    [slot_id |-> slot, sn |-> sn, link_speed |-> link]

DriveSectionSamples ==
    {DriveSection(<<"2">>, SerialABC, <<"6.0Gb/s">>),
     DriveSection(<<"1", "0">>, SerialXY, <<"12.0Gb/s">>),
     DriveSection(<<"2">>, NoMatch, <<"6.0Gb/s">>)}
StorcliAllOutputs ==
    Failures \cup {Output(b) : b \in StringsOver(DriveSectionSamples, 0, 2)}

RECURSIVE DetailsOf(_)
DetailsOf(blocks) ==
    IF blocks = <<>> THEN EmptyDict
    ELSE LET details == DetailsOf(SubSeq(blocks, 1, Len(blocks) - 1))
             block == blocks[Len(blocks)]
         IN  IF block.sn # NoMatch /\ block.link_speed # NoMatch
             THEN Put(details, block.slot_id,
                      [sn |-> block.sn, link_speed |-> block.link_speed])
             ELSE details

get_drive_details(o) == IF o.ok THEN DetailsOf(o.text) ELSE EmptyDict

(***************************************************************************)
(* get_lsi_summary: the controller fields of `storcli64 /c0 show`          *)
(***************************************************************************)
FieldNames == {"controller_serial", "driver_version", "driver_name",
               "bios_version", "nvdata_version", "fw_version", "total_ports"}

\* The values the function starts from.
InitialSummary ==
    [f \in FieldNames |-> IF f = "driver_name" THEN <<>> ELSE NA]

\* What each pattern captures when it matches.
FieldValues ==
    [controller_serial |-> <<"S", "P", "4", "2">>,
     driver_version |-> <<"43.100">>,
     driver_name |-> <<"mpt3sas">>,
     bios_version |-> <<"8.37.00.00">>,
     nvdata_version |-> <<"14.01.00.03">>,
     fw_version |-> <<"16.00.12.00">>,
     total_ports |-> <<"8">>]

\* The groups of the seven patterns, with those of `missing` not matching.
FieldsWithout(missing) ==
    [f \in FieldNames |-> IF f \in missing THEN NoMatch ELSE FieldValues[f]]

\* each `if ..._match:` assignment
SummaryOf(fields) ==
    [f \in FieldNames |->
        IF fields[f] # NoMatch THEN fields[f] ELSE InitialSummary[f]]

(***************************************************************************)
(* get_lsi_summary: the device table of `storcli64 /c0 show`               *)
(*                                                                         *)
(* Of the table the function reads: whether the header line is found,      *)
(* whether it holds "Model", whether a column follows it, whether the body *)
(* between two rules is found, and the body's lines.  A body line is given *)
(* by its two slices: the tokens before the Model column and the text of   *)
(* the Model column.                                                       *)
(***************************************************************************)
Table(header, model_col, next_col, rules, lines) ==
    [header |-> header, model_col |-> model_col, next_col |-> next_col,
     rules |-> rules, lines |-> lines]
BodyLine(before, model) == [before |-> before, model |-> model]

BodyLineSamples ==
    {BodyLine(<<<<":", "2">>, <<"7">>>>, <<"S", "T", "4">>),
     BodyLine(<<<<":", "1", "0">>, <<"8">>>>,
              <<"T", "D", "M", "0", "0", ",", "x">>),
     BodyLine(<<<<"2", "5", "2", ":", "0">>, <<"9">>>>, <<"W", "D", " ", "-">>),
     BodyLine(<<<<"2", "5", "2", ":", "1">>, <<"9">>>>, <<"W", "D", " ", "-">>),
     BodyLine(<<<<":", "2">>>>, <<"S", "T", "4">>),
     BodyLine(<<<<"-">>, <<"-">>>>, <<"-">>),
     BodyLine(<<>>, <<" ">>)}

\* The rows of a table are distinct.
Bodies ==
    {b \in StringsOver(BodyLineSamples, 0, MaxLines) :
        \A i, j \in 1..Len(b) : i # j => b[i] # b[j]}

Tables ==
    {Table(FALSE, FALSE, FALSE, FALSE, <<>>),
     Table(TRUE, TRUE, FALSE, TRUE, <<BodyLine(<<<<":", "2">>, <<"7">>>>,
                                               <<"S", "T", "4">>)>>)}
        \cup {Table(TRUE, TRUE, TRUE, TRUE, b) : b \in Bodies}

\* s.strip() and s.rstrip(chars)
RECURSIVE RStrip(_, _)
RStrip(s, chars) ==
    IF s # <<>> /\ s[Len(s)] \in chars
    THEN RStrip(SubSeq(s, 1, Len(s) - 1), chars)
    ELSE s
RECURSIVE LStrip(_, _)
LStrip(s, chars) ==
    IF s # <<>> /\ s[1] \in chars
    THEN LStrip(SubSeq(s, 2, Len(s)), chars)
    ELSE s
Strip(s) == LStrip(RStrip(s, {" "}), {" "})

\* s.split(',')[0]
BeforeComma(s) ==
    IF \E i \in 1..Len(s) : s[i] = ","
    THEN SubSeq(s, 1, Min({i \in 1..Len(s) : s[i] = ","}) - 1)
    ELSE s

\* the model string of a body line, with the fix for storcli's quirks
ModelOf(line) ==
    LET model == Strip(line.model)
        fixed == IF StartsWith(model, <<"T">>)
                    /\ Contains(model, <<"D", "M", "0", "0">>)
                 THEN <<"S">> \o model
                 ELSE model
    IN  RStrip(BeforeComma(fixed), {" ", "-"})

\* slot_match.group(1) if slot_match else None, on parts_before_model[0]
SlotOf(line) == FirstDigitRun(line.before[1])

\* The body lines that give a device line: not blank, at least two tokens
\* before the Model column, and a slot id in the first of them.
Parsed(line) ==
    /\ ~(line.before = <<>> /\ Strip(line.model) = <<>>)
    /\ Len(line.before) >= 2
    /\ SlotOf(line) # NoMatch
    /\ SlotOf(line) # <<>>

DeviceLine(line, details, temps, hide) ==
    LET slot_id == SlotOf(line)
        device_info == Get(details, slot_id, [sn |-> NA, link_speed |-> NA])
        serial_num == device_info.sn
        link_speed == device_info.link_speed
        temp == Get(temps, serial_num, NA)
        colored_temp == colorize_temp(TempStr(temp), "drive")
        sn_to_display == IF hide THEN mask_serial(serial_num) ELSE serial_num
    IN  <<"  - Port ">> \o slot_id \o <<" Model: ">> \o ModelOf(line)
            \o <<", SN: ">> \o sn_to_display \o <<", Speed: ">> \o link_speed
            \o <<", Temp: ">> \o colored_temp

\* A variant of the loop that appends a device line only for a slot that
\* get_drive_details knows.
DeviceLinesKnownOnly(lines, details, temps, hide) ==
    LET RECURSIVE Loop(_)
        Loop(n) ==
            IF n = 0 THEN <<>>
            ELSE IF Parsed(lines[n]) /\ SlotOf(lines[n]) \in DOMAIN details
            THEN Append(Loop(n - 1), DeviceLine(lines[n], details, temps, hide))
            ELSE Loop(n - 1)
    IN  Loop(Len(lines))

\* for line in device_lines: ... devices.append(...)
DeviceLines(lines, details, temps, hide) ==
    LET RECURSIVE Loop(_)
        Loop(n) ==
            IF n = 0 THEN <<>>
            ELSE IF Parsed(lines[n])
            THEN Append(Loop(n - 1), DeviceLine(lines[n], details, temps, hide))
            ELSE Loop(n - 1)
    IN  Loop(Len(lines))

TableFound(table) ==
    table.header /\ table.model_col /\ table.next_col /\ table.rules

DevicesOf(table, details, temps, hide) ==
    IF TableFound(table)
    THEN DeviceLines(table.lines, details, temps, hide)
    ELSE <<>>

StorcliAdvisory == <<"  - Could not execute storcli. Is it in your PATH?">>

(***************************************************************************)
(* get_lsi_summary: printing                                               *)
(***************************************************************************)
\* re.search(r'Port (\d+)', x): the first place where "Port " is followed by
\* a digit.  Of the literals of the program only the head of a device line
\* ends in "Port ".
EndsInPort(token) == token = "  - Port "
PortMatches(x) ==
    {i \in 1..(Len(x) - 1) : EndsInPort(x[i]) /\ IsDigit(x[i + 1])}
\* .group(1) of that match: NoMatch stands for the None re.search returns.
PortGroup(x) ==
    IF PortMatches(x) = {} THEN NoMatch
    ELSE DigitRunAt(x, Min(PortMatches(x)) + 1)
\* key=lambda x: int(re.search(r'Port (\d+)', x).group(1))
SortKey(x) == ToInt(PortGroup(x))

\* list.sort(key=...): stable, ascending by key.
RECURSIVE InsertByKey(_, _)
InsertByKey(sorted, x) ==
    IF sorted = <<>> THEN <<x>>
    ELSE IF SortKey(sorted[Len(sorted)]) <= SortKey(x)
    THEN Append(sorted, x)
    ELSE Append(InsertByKey(SubSeq(sorted, 1, Len(sorted) - 1), x),
                sorted[Len(sorted)])
RECURSIVE SortDevices(_)
SortDevices(d) ==
    IF d = <<>> THEN <<>>
    ELSE InsertByKey(SortDevices(SubSeq(d, 1, Len(d) - 1)), d[Len(d)])

\* `if bus_interface:`
Truthy(x) == x # None /\ x # <<>>

\* The lines printed before the device list.
SummaryLines ==
    LET controller_sn_to_display ==
            IF hide_serials THEN mask_serial(summary.controller_serial)
            ELSE summary.controller_serial
    IN  <<<<"LSI Controller Summary">>,
          <<"======================">>,
          <<"Controller: ">> \o controller_name>>
        \o (IF Truthy(bus_interface)
            THEN <<<<"Bus Interface:  ">> \o bus_interface>>
            ELSE <<>>)
        \o <<<<"Serial Number:    ">> \o controller_sn_to_display,
             <<"Driver Version:  ">> \o summary.driver_version \o <<" (">>
                 \o summary.driver_name \o <<")">>,
             <<"BIOS Version = ">> \o summary.bios_version,
             <<"NVDATA Version = ">> \o summary.nvdata_version,
             <<"FW Version = ">> \o summary.fw_version,
             <<"Controller Temp: ">>
                 \o colorize_temp(TempStr(controller_temp), "controller"),
             <<"Ports Connected:  ">> \o Str(Len(devices)),
             <<>>,
             <<"Connected Devices:">>>>

NoDevicesLine == <<"  - No devices found or could not parse device list.">>

(***************************************************************************)
(* get_lsi_summary: the steps of a run                                     *)
(***************************************************************************)
\* The verbose listings a run of the summary is given.
MainLspciOutputs ==
    {Raised("FileNotFoundError"), Output(<<SasBlockB>>), Output(<<SasBlockA>>)}
MainLspciSimpleOutputs ==
    {Raised("CalledProcessError"),
     Output(<<Line("01:00.0 Serial Attached SCSI controller: A", TRUE)>>)}

\* The sets of controller fields whose pattern does not match: none, one,
\* or all of them.
MissingFields == {{}, FieldNames} \cup {{f} : f \in FieldNames}

\* The listings of `storcli64 /c0 show`: every table with all the fields
\* matching, and every set of missing fields with one table.
ShowText(missing, table) == [fields |-> FieldsWithout(missing), table |-> table]
PlainTable ==
    Table(TRUE, TRUE, TRUE, TRUE,
          <<BodyLine(<<<<":", "2">>, <<"7">>>>, <<"S", "T", "4">>)>>)
StorcliShowOutputs ==
    Failures \cup {Output(ShowText({}, t)) : t \in Tables}
             \cup {Output(ShowText(m, PlainTable)) : m \in MissingFields}

\* The group of the ROC temperature pattern.
StorcliTempOutputs ==
    Failures \cup {Output(NoMatch), Output(<<"1", "0", "0">>)}

\* drive_temps = get_drive_temperatures()
Hdsentinel ==
    /\ pc = "ctl_ret"
    /\ \E o \in HdsentinelOutputs : drive_temps' = get_drive_temperatures(o)
    /\ pc' = "details"
    /\ UNCHANGED <<serial_number, temp_str, device_type, ret, lspci_output,
                   lspci_output_simple, controller_name, bus_interface,
                   hide_serials, drive_details_by_slot, storcli_output_show,
                   summary, devices, controller_temp, out>>

\* drive_details_by_slot = get_drive_details()
StorcliShowAll ==
    /\ pc = "details"
    /\ \E o \in StorcliAllOutputs :
          drive_details_by_slot' = get_drive_details(o)
    /\ pc' = "show"
    /\ UNCHANGED <<serial_number, temp_str, device_type, ret, lspci_output,
                   lspci_output_simple, controller_name, bus_interface,
                   hide_serials, drive_temps, storcli_output_show, summary,
                   devices, controller_temp, out>>

\* The first try block: `storcli64 /c0 show`, the controller fields and the
\* device table; a failed call leaves the advisory line in devices.
StorcliShow ==
    /\ pc = "show"
    /\ \E o \in StorcliShowOutputs :
          /\ storcli_output_show' = o
          /\ IF o.ok
             THEN /\ summary' = SummaryOf(o.text.fields)
                  /\ devices' = DevicesOf(o.text.table, drive_details_by_slot,
                                          drive_temps, hide_serials)
             ELSE /\ summary' = InitialSummary
                  /\ devices' = <<StorcliAdvisory>>
    /\ pc' = "temperature"
    /\ UNCHANGED <<serial_number, temp_str, device_type, ret, lspci_output,
                   lspci_output_simple, controller_name, bus_interface,
                   hide_serials, drive_temps, drive_details_by_slot,
                   controller_temp, out>>

\* The second try block: `storcli64 /c0 show temperature`.
StorcliTemperature ==
    /\ pc = "temperature"
    /\ \E o \in StorcliTempOutputs :
          controller_temp' = IF o.ok /\ o.text # NoMatch THEN o.text ELSE NA
    /\ pc' = "print"
    /\ UNCHANGED <<serial_number, temp_str, device_type, ret, lspci_output,
                   lspci_output_simple, controller_name, bus_interface,
                   hide_serials, drive_temps, drive_details_by_slot,
                   storcli_output_show, summary, devices, out>>

\* Print Summary: the lines of the report, then the sorted device list.  A
\* device whose sort key cannot be computed raises AttributeError out of
\* devices.sort, which nothing catches.
PrintSummary ==
    /\ pc = "print"
    /\ IF devices = <<>>
       THEN /\ out' = SummaryLines \o <<NoDevicesLine>>
            /\ pc' = "done"
       ELSE IF \E i \in 1..Len(devices) : PortGroup(devices[i]) = NoMatch
       THEN /\ out' = SummaryLines
            /\ pc' = "crashed"
       ELSE /\ out' = SummaryLines \o SortDevices(devices)
            /\ pc' = "done"
    /\ UNCHANGED <<serial_number, temp_str, device_type, ret, lspci_output,
                   lspci_output_simple, controller_name, bus_interface,
                   hide_serials, drive_temps, drive_details_by_slot,
                   storcli_output_show, summary, devices, controller_temp>>

Init ==
    /\ pc = "start"
    /\ hide_serials \in BOOLEAN
    /\ NoDirectCall
    /\ Idle

Next ==
    \/ LspciVerbose(MainLspciOutputs)
    \/ LspciSimple(MainLspciSimpleOutputs)
    \/ Hdsentinel
    \/ StorcliShowAll
    \/ StorcliShow
    \/ StorcliTemperature
    \/ PrintSummary

Spec == Init /\ [][Next]_vars

(***************************************************************************)
(* Reading the report back: the parts of a printed line.                   *)
(***************************************************************************)
IndexOf(x, token) == Min({i \in 1..Len(x) : x[i] = token})
Has(x, token) == \E i \in 1..Len(x) : x[i] = token
\* The text of line x between two of its labels, and after a label.
Between(x, a, b) == SubSeq(x, IndexOf(x, a) + 1, IndexOf(x, b) - 1)
After(x, a) == SubSeq(x, IndexOf(x, a) + 1, Len(x))

\* The printed line that starts with a label.
HasLine(label) == \E i \in 1..Len(out) : out[i] # <<>> /\ out[i][1] = label
LineOf(label) ==
    out[Min({i \in 1..Len(out) : out[i] # <<>> /\ out[i][1] = label})]

\* The lines printed after "Connected Devices:".
DeviceSection ==
    IF HasLine("Connected Devices:")
    THEN SubSeq(out, Min({i \in 1..Len(out) :
                             out[i] = <<"Connected Devices:">>}) + 1, Len(out))
    ELSE <<>>
IsDriveRecord(x) == Len(x) >= 2 /\ x[1] = "  - Port " /\ Has(x, ", Temp: ")
\* The drive records of the report, in the order printed.
RecordIndexes == {i \in 1..Len(DeviceSection) : IsDriveRecord(DeviceSection[i])}
RecordPort(x) == Between(x, "  - Port ", " Model: ")
RecordSN(x) == Between(x, ", SN: ", ", Speed: ")
RecordSpeed(x) == Between(x, ", Speed: ", ", Temp: ")
RecordTemp(x) == After(x, ", Temp: ")
RecordsOf(slot) ==
    {i \in RecordIndexes : RecordPort(DeviceSection[i]) = slot}

\* The classification a colored string carries.
Classification(s) ==
    IF s = <<>> THEN "none"
    ELSE IF s[1] = Colors.GREEN THEN "normal"
    ELSE IF s[1] = Colors.YELLOW THEN "warning"
    ELSE IF s[1] = Colors.RED THEN "critical"
    ELSE "none"
Celsius(n) == Str(n) \o <<"deg", "C">>

\* The run has printed its report: to the end, or up to the uncaught error.
Printed == pc \in {"done", "crashed"}
ShowOk == storcli_output_show.called /\ storcli_output_show.ok
\* The body lines of the located device table that carry a slot id, and
\* their slot ids.
TableRows ==
    IF ShowOk /\ TableFound(storcli_output_show.text.table)
    THEN LET lines == storcli_output_show.text.table.lines
         IN  {lines[i] : i \in {k \in 1..Len(lines) : Parsed(lines[k])}}
    ELSE {}
TableSlots == {SlotOf(l) : l \in TableRows}

(***************************************************************************)
(* Claims about the pure functions.                                        *)
(***************************************************************************)
\* C5: for a serial s of length >= 2 other than "N/A", mask_serial(s) has
\* the length of s, its first len(s)//2 characters are '*' and the others
\* are those of s; for len(s) < 2 or s = "N/A", mask_serial(s) = s.
C5_Masking ==
    pc = "mask_serial_ret" =>
        LET s == serial_number
            n == Len(s)
        IN  IF n >= 2 /\ s # NA
            THEN /\ Len(ret) = n
                 /\ \A i \in 1..(n \div 2) : ret[i] = "*"
                 /\ \A i \in (n \div 2 + 1)..n : ret[i] = s[i]
            ELSE ret = s

C5_Witness ==
    /\ pc = "mask_serial_ret"
    /\ serial_number = <<"A", "7", "N">>
    /\ ret = <<"*", "7", "N">>

\* C4 as stated: drive 59 -> normal, 51 -> warning, 60 -> critical;
\* controller 100 -> warning, 101 -> critical.
C4_ClassificationAsStated ==
    pc = "colorize_temp_ret" =>
        LET class == Classification(ret) IN
        /\ device_type = "drive" /\ temp_str = Celsius(59) => class = "normal"
        /\ device_type = "drive" /\ temp_str = Celsius(51) => class = "warning"
        /\ device_type = "drive" /\ temp_str = Celsius(60) => class = "critical"
        /\ device_type = "controller" /\ temp_str = Celsius(100)
              => class = "warning"
        /\ device_type = "controller" /\ temp_str = Celsius(101)
              => class = "critical"

\* C4 amended: drive 50 -> normal, 51 -> warning, 59 -> warning,
\* 60 -> critical; controller 100 -> warning, 101 -> critical.
C4_Classification ==
    pc = "colorize_temp_ret" =>
        LET class == Classification(ret) IN
        /\ device_type = "drive" /\ temp_str = Celsius(50) => class = "normal"
        /\ device_type = "drive" /\ temp_str = Celsius(51) => class = "warning"
        /\ device_type = "drive" /\ temp_str = Celsius(59) => class = "warning"
        /\ device_type = "drive" /\ temp_str = Celsius(60) => class = "critical"
        /\ device_type = "controller" /\ temp_str = Celsius(100)
              => class = "warning"
        /\ device_type = "controller" /\ temp_str = Celsius(101)
              => class = "critical"

C4_Witness ==
    /\ pc = "colorize_temp_ret"
    /\ device_type = "drive"
    /\ temp_str = Celsius(59)
    /\ Classification(ret) = "warning"

(***************************************************************************)
(* Claims about get_controller_details.                                    *)
(***************************************************************************)
\* The first block of the verbose listing that holds the marker has no
\* link-status line.
MarkerBlocks ==
    {i \in 1..Len(lspci_output.text) : lspci_output.text[i].marker}
FirstMarkerWithoutLink ==
    /\ lspci_output.called
    /\ lspci_output.ok
    /\ MarkerBlocks # {}
    /\ ~lspci_output.text[Min(MarkerBlocks)].lnk_sta.matched
\* The later blocks that hold the marker and a link-status line.
LinkedMarkerBlocks ==
    {i \in MarkerBlocks : lspci_output.text[i].lnk_sta.matched}

\* C9 as stated: when the first block with the marker has no link-status
\* line, the result is that block's first line and no bus interface; no
\* later block and no second invocation decides it.
C9_FirstMarkerBlockDecides ==
    FirstMarkerWithoutLink =>
        /\ pc = "ctl_ret"
        /\ controller_name = <<lspci_output.text[Min(MarkerBlocks)].first_line>>
        /\ bus_interface = None
        /\ ~lspci_output_simple.called

\* C9 amended: when the first block with the marker has no link-status
\* line, the scan goes on.  The first later block with the marker and a
\* link-status line gives the name and the bus interface; when there is
\* none, the plain listing is invoked and decides: its first line with the
\* marker, or the not-found text, or the error text, without bus interface.
C9_ScanGoesOn ==
    FirstMarkerWithoutLink /\ pc = "ctl_ret" =>
        IF LinkedMarkerBlocks # {}
        THEN LET b == lspci_output.text[Min(LinkedMarkerBlocks)]
             IN  /\ controller_name = <<b.first_line>>
                 /\ bus_interface = <<"PCI Express ",
                                      PcieVersion(b.lnk_sta.speed), " ",
                                      b.lnk_sta.width>>
                 /\ ~lspci_output_simple.called
        ELSE /\ lspci_output_simple.called
             /\ bus_interface = None
             /\ IF lspci_output_simple.ok
                THEN LET lines == lspci_output_simple.text
                         hits == {i \in 1..Len(lines) : lines[i].marker}
                     IN  IF hits = {}
                         THEN controller_name = <<"LSI controller not found.">>
                         ELSE controller_name = <<lines[Min(hits)].text>>
                ELSE controller_name[1] = "Error retrieving controller details: "

C9_Witness ==
    /\ pc = "ctl_ret"
    /\ FirstMarkerWithoutLink
    /\ LinkedMarkerBlocks # {}
    /\ controller_name = <<SasBlockB.first_line>>
    /\ bus_interface = <<"PCI Express ", "3.0", " ", "x8">>

(***************************************************************************)
(* Claims about a run of get_lsi_summary.                                  *)
(***************************************************************************)
\* C1: whatever tools succeed or fail, the run ends without an uncaught
\* error and prints the complete report: header, identity block, port count
\* and the "Connected Devices" section with its lines.
C1_RunCompletes ==
    /\ pc # "crashed"
    /\ pc = "done" =>
          /\ HasLine("LSI Controller Summary")
          /\ HasLine("Controller: ")
          /\ HasLine("Serial Number:    ")
          /\ HasLine("Ports Connected:  ")
          /\ HasLine("Connected Devices:")
          /\ DeviceSection # <<>>

\* C2: every slot id of a body line of the device table has exactly one
\* record in the device list printed, also with nothing joined to it.
C2_EachTableSlotOnce ==
    pc = "done" => \A slot \in TableSlots : Cardinality(RecordsOf(slot)) = 1

\* C3: the drive lines printed are strictly ascending by the integer value
\* of their slot id.
C3_StrictlyAscending ==
    pc = "done" =>
        \A i, j \in RecordIndexes :
            i < j => ToInt(RecordPort(DeviceSection[i]))
                        < ToInt(RecordPort(DeviceSection[j]))

\* C6: the port count printed is the number of drive records, which is 0
\* when the `storcli64 /c0 show` call fails or the table is not located.
DriveRecordCount ==
    Cardinality({i \in 1..Len(devices) : IsDriveRecord(devices[i])})
C6_PortCountIsRecordCount ==
    Printed =>
        /\ After(LineOf("Ports Connected:  "), "Ports Connected:  ")
              = Str(DriveRecordCount)
        /\ TableSlots = {} => LineOf("Ports Connected:  ")
                                 = <<"Ports Connected:  ", "0">>

Reported(f) ==
    CASE f = "controller_serial" ->
            After(LineOf("Serial Number:    "), "Serial Number:    ")
      [] f = "driver_version" ->
            Between(LineOf("Driver Version:  "), "Driver Version:  ", " (")
      [] f = "driver_name" -> Between(LineOf("Driver Version:  "), " (", ")")
      [] f = "bios_version" ->
            After(LineOf("BIOS Version = "), "BIOS Version = ")
      [] f = "nvdata_version" ->
            After(LineOf("NVDATA Version = "), "NVDATA Version = ")
      [] f = "fw_version" -> After(LineOf("FW Version = "), "FW Version = ")
      [] f = "total_ports" -> summary.total_ports

\* C8: a controller field whose pattern does not match, or whose command
\* failed, is "N/A" in the report, and the run does not fail.
C8_MissingFieldIsUnknown ==
    Printed =>
        /\ pc # "crashed"
        /\ \A f \in FieldNames :
              (~ShowOk \/ storcli_output_show.text.fields[f] = NoMatch)
                  => Reported(f) = NA

\* C10: the temperature of a drive record is the value the temperature
\* mapping holds under the record's serial number; with the serial number
\* unknown or not a key of the mapping the record is printed with "N/A"
\* and no color.
C10_TemperatureBySerial ==
    pc = "done" =>
        \A slot \in TableSlots :
            LET serial_num ==
                    IF slot \in DOMAIN drive_details_by_slot
                    THEN drive_details_by_slot[slot].sn
                    ELSE NA
            IN  /\ RecordsOf(slot) # {}
                /\ \A i \in RecordsOf(slot) :
                      LET shown == RecordTemp(DeviceSection[i])
                      IN  IF serial_num = NA
                             \/ serial_num \notin DOMAIN drive_temps
                          THEN shown = NA
                          ELSE /\ Classification(shown) # "none"
                               /\ SubSeq(shown, 2, Len(shown) - 1)
                                     = drive_temps[serial_num] \o <<"deg", "C">>

=============================================================================
